---- MODULE Spec2Model ----
(***************************************************************************)
(* The ONNX exporter of pytorch_pfn_extras/onnx/export/export.py as a      *)
(* state machine: one export(model, args, f, **opts) call, from entry of   *)
(* _Exporter._convert to the write of the serialized model.                *)
(*                                                                         *)
(* The torch IR graph is held as two tables: g.nodes (one record per       *)
(* torch._C.Node) and g.blocks (one record per torch._C.Block; block 1 is  *)
(* the graph itself).  A value is its unique() id; g.dbg[v] is its         *)
(* debugName().  A use of a value is an occurrence in the inputs of a node *)
(* attached to some block or in the outputs of a block (its return node).  *)
(***************************************************************************)
EXTENDS Integers, Sequences, FiniteSets, TLC

\* Bound: number of items of the traced program at the top level.
MaxNodes == 2

\* The longest list of names a caller passes
MaxNames == 3

None == "None"

\* A Python value that may be None, where the value is not a string: << >> is
\* None and <<x>> is x.
Nothing == << >>
Some(x) == <<x>>

(***************************************************************************)
(* Sequence helpers                                                        *)
(***************************************************************************)
Range(s) == {s[i] : i \in DOMAIN s}

RECURSIVE SeqFilter(_, _)
SeqFilter(s, keep) ==
  IF s = <<>> THEN <<>>
  ELSE IF Head(s) \in keep THEN <<Head(s)>> \o SeqFilter(Tail(s), keep)
       ELSE SeqFilter(Tail(s), keep)

SeqMap(s, f) == [i \in DOMAIN s |-> IF s[i] \in DOMAIN f THEN f[s[i]] ELSE s[i]]

(***************************************************************************)
(* torch._C.Graph primitives                                               *)
(***************************************************************************)
RootBlock == 1

EmptyGraph ==
  [nodes  |-> <<>>,
   blocks |-> <<[inputs |-> <<>>, nodes |-> <<>>, outputs |-> <<>>]>>,
   dbg    |-> <<>>]

\* A fresh value; name "" stands for a value without a debug name.
AddValue(gr, name) == [gr EXCEPT !.dbg = Append(@, name)]

NumValues(gr) == Len(gr.dbg)

\* graph.addInput()
AddInput(gr, name) ==
  LET g1 == AddValue(gr, name)
  IN  [g1 EXCEPT !.blocks[RootBlock].inputs = Append(@, NumValues(g1))]

\* A new block without nodes (a branch body of a prim::If).
AddBlock(gr) ==
  [gr EXCEPT !.blocks = Append(@, [inputs |-> <<>>, nodes |-> <<>>, outputs |-> <<>>])]

\* g.op / g.create + insertNode: a node with nouts fresh outputs appended at the
\* insert point of block b, which is the end of the block (before its return node).
AddNode(gr, b, kind, ins, nouts, a, blks) ==
  LET nv == NumValues(gr)
      nd == [kind |-> kind, ins |-> ins,
             outs |-> [i \in 1..nouts |-> nv + i],
             a |-> a, blocks |-> blks]
      id == Len(gr.nodes) + 1
  IN  [gr EXCEPT !.nodes = Append(@, nd),
                 !.blocks[b].nodes = Append(@, id),
                 !.dbg = @ \o [i \in 1..nouts |-> ""]]

LastNode(gr) == Len(gr.nodes)
LastOuts(gr) == gr.nodes[Len(gr.nodes)].outs

SetOutputs(gr, b, outs) == [gr EXCEPT !.blocks[b].outputs = outs]

GraphInputs(gr) == gr.blocks[RootBlock].inputs
GraphOutputs(gr) == gr.blocks[RootBlock].outputs

\* The nodes attached to some block.
Attached(gr) == UNION {Range(gr.blocks[b].nodes) : b \in DOMAIN gr.blocks}

\* Value.uses(): consumers of v, as <<"node", id, input index>> or
\* <<"return", block, output index>>.
Uses(gr, v) ==
  UNION {{<<"node", n, i>> : i \in {j \in DOMAIN gr.nodes[n].ins : gr.nodes[n].ins[j] = v}}
           : n \in Attached(gr)} \cup
  UNION {{<<"return", b, i>> : i \in {j \in DOMAIN gr.blocks[b].outputs : gr.blocks[b].outputs[j] = v}}
           : b \in DOMAIN gr.blocks}

\* C6 variant: replaceAllUsesWith that leaves the return nodes alone
ReplaceUsesInNodes(gr, old, new) ==
  [gr EXCEPT
     !.nodes  = [n \in DOMAIN gr.nodes |->
                   [gr.nodes[n] EXCEPT !.ins = [i \in DOMAIN @ |-> IF @[i] = old THEN new ELSE @[i]]]]]

\* Value.replaceAllUsesWith
ReplaceAllUsesWith(gr, old, new) ==
  [gr EXCEPT
     !.nodes  = [n \in DOMAIN gr.nodes |->
                   [gr.nodes[n] EXCEPT !.ins = [i \in DOMAIN @ |-> IF @[i] = old THEN new ELSE @[i]]]],
     !.blocks = [b \in DOMAIN gr.blocks |->
                   [gr.blocks[b] EXCEPT !.outputs = [i \in DOMAIN @ |-> IF @[i] = old THEN new ELSE @[i]]]]]

(***************************************************************************)
(* The traced program.  torch.jit.trace is outside the repository: the     *)
(* model to export is described by the graph its trace yields, a chain of  *)
(* items.  Every item consumes the current value cur (and aux: the last    *)
(* constant or attribute, before that the second input, when there is      *)
(* one); the graph returns cur.                                            *)
(***************************************************************************)
InputDebugNames == <<"x", "y", "z">>

Item(kind, a, nb, body) == [kind |-> kind, a |-> a, nb |-> nb, body |-> body]

SimpleItems ==
  { Item("prim::Constant", "value", 0, <<>>),
    Item("prim::Constant", "", 0, <<>>),
    Item("prim::GetAttr", "weight", 0, <<>>),
    Item("prim::GetAttr", "sub", 0, <<>>),
    Item("prim::ListConstruct", "IntType", 0, <<>>),
    Item("prim::ListConstruct", "TensorType", 0, <<>>),
    Item("aten::relu", "", 0, <<>>),
    Item("aten::split", "", 0, <<>>),
    Item("aten::detach", "", 0, <<>>),
    Item("aten::miscount", "", 0, <<>>),
    Item("aten::unregistered", "", 0, <<>>) }

\* Branch bodies: the kinds of the nodes on the path into the nesting.
Bodies ==
  { <<>>, <<"aten::relu">>, <<"aten::unregistered">>,
    <<"prim::If", "aten::relu">>, <<"prim::If", "aten::unregistered">> }

IfItems ==
  { Item("prim::If", "", 2, b) : b \in Bodies } \cup
  { Item("prim::If", "", 1, <<>>), Item("prim::If", "", 3, <<>>) }

Items == SimpleItems \cup IfItems

Programs == UNION { [1..n -> Items] : n \in 0..MaxNodes }

NodeInputs(cur, aux) == <<cur>> \o (IF aux = 0 THEN <<>> ELSE <<aux>>)

RECURSIVE FillBody(_, _, _, _, _)
RECURSIVE AddIf(_, _, _, _, _, _)

\* A prim::If on cur in block b whose nb blocks all have the given body.
AddIf(gr, b, nb, body, cur, aux) ==
  LET first == Len(gr.blocks)
      ids   == [i \in 1..nb |-> first + i]
      RECURSIVE WithBlocks(_, _)
      WithBlocks(g0, k) == IF k = 0 THEN g0 ELSE WithBlocks(AddBlock(g0), k - 1)
      g1 == AddNode(WithBlocks(gr, nb), b, "prim::If", <<cur>>, 1, "", ids)
      RECURSIVE Fill(_, _)
      Fill(g0, k) == IF k > nb THEN g0
                     ELSE Fill(FillBody(g0, ids[k], body, cur, aux), k + 1)
  IN  Fill(g1, 1)

\* The body of one branch block; a block without nodes returns the value it
\* captures from the enclosing graph.
FillBody(gr, b, body, cur, aux) ==
  IF body = <<>> THEN SetOutputs(gr, b, <<cur>>)
  ELSE IF Head(body) = "prim::If"
  THEN LET nid == Len(gr.nodes) + 1
           g1  == AddIf(gr, b, 2, Tail(body), cur, aux)
       IN  SetOutputs(g1, b, g1.nodes[nid].outs)
  ELSE LET g1 == AddNode(gr, b, Head(body), NodeInputs(cur, aux), 1, "", <<>>)
       IN  SetOutputs(g1, b, LastOuts(g1))

\* One item appended to the root graph; acc = [g, cur, aux].
ApplyItem(acc, it, selfv) ==
  LET gr == acc.g
      ins == NodeInputs(acc.cur, acc.aux)
  IN
  CASE it.kind = "prim::Constant" ->
         LET g1 == AddNode(gr, RootBlock, it.kind, <<>>, 1, it.a, <<>>)
         IN  [acc EXCEPT !.g = g1, !.aux = LastOuts(g1)[1]]
    [] it.kind = "prim::GetAttr" /\ it.a = "weight" ->
         LET g1 == AddNode(gr, RootBlock, it.kind, <<selfv>>, 1, "weight", <<>>)
         IN  [acc EXCEPT !.g = g1, !.aux = LastOuts(g1)[1]]
    [] it.kind = "prim::GetAttr" /\ it.a = "bias" ->
         LET g1 == AddNode(gr, RootBlock, it.kind, <<selfv>>, 1, "bias", <<>>)
         IN  [acc EXCEPT !.g = g1, !.cur = LastOuts(g1)[1]]
    [] it.kind = "prim::GetAttr" /\ it.a = "sub" ->
         LET g1 == AddNode(gr, RootBlock, it.kind, <<selfv>>, 1, "sub", <<>>)
             g2 == AddNode(g1, RootBlock, it.kind, LastOuts(g1), 1, "weight", <<>>)
         IN  [acc EXCEPT !.g = g2, !.aux = LastOuts(g2)[1]]
    [] it.kind = "prim::If" ->
         LET nid == Len(gr.nodes) + 1
             g1  == AddIf(gr, RootBlock, it.nb, it.body, acc.cur, acc.aux)
         IN  [acc EXCEPT !.g = g1, !.cur = g1.nodes[nid].outs[1]]
    [] it.kind = "aten::split" ->
         LET g1 == AddNode(gr, RootBlock, it.kind, ins, 2, "", <<>>)
         IN  [acc EXCEPT !.g = g1, !.cur = LastOuts(g1)[2], !.aux = LastOuts(g1)[1]]
    [] OTHER ->
         LET g1 == AddNode(gr, RootBlock, it.kind, ins, 1, it.a, <<>>)
         IN  [acc EXCEPT !.g = g1, !.cur = LastOuts(g1)[1]]

RECURSIVE ApplyItems(_, _, _)
ApplyItems(acc, prog, selfv) ==
  IF prog = <<>> THEN acc
  ELSE ApplyItems(ApplyItem(acc, Head(prog), selfv), Tail(prog), selfv)

RECURSIVE WithInputs(_, _, _)
WithInputs(gr, k, nin) ==
  IF k > nin THEN gr ELSE WithInputs(AddInput(gr, InputDebugNames[k]), k + 1, nin)

\* A model with two results also returns relu of its first input
SecondResult(g1, cur) == SetOutputs(g1, RootBlock, <<cur>> \o LastOuts(g1))

\* A model with three results also returns relu of its last input
ThirdResult(g2, g3) == SetOutputs(g3, RootBlock, GraphOutputs(g2) \o LastOuts(g3))

WithThirdResult(g2) ==
  ThirdResult(g2, AddNode(g2, RootBlock, "aten::relu",
                          <<GraphInputs(g2)[Len(GraphInputs(g2))]>>, 1, "", <<>>))

Returning(acc, nout, first) ==
  IF nout = 1 THEN SetOutputs(acc.g, RootBlock, <<acc.cur>>)
  ELSE IF nout = 2
  THEN SecondResult(AddNode(acc.g, RootBlock, "aten::relu", <<first>>, 1, "", <<>>),
                    acc.cur)
  ELSE WithThirdResult(
         SecondResult(AddNode(acc.g, RootBlock, "aten::relu", <<first>>, 1, "", <<>>),
                      acc.cur))

\* The chain of m on the graph g1 that holds the inputs
Chain(m, g1, selfv) ==
  Returning(ApplyItems([g |-> g1, cur |-> selfv + 1,
                        aux |-> IF m.nin >= 2 THEN selfv + 2 ELSE 0], m.prog, selfv),
            m.nout, selfv + 1)

\* traced.inlined_graph of a model m = [self, nin, nout, prog]
TracedGraph(m) ==
  Chain(m, WithInputs(IF m.self THEN AddInput(EmptyGraph, "self") ELSE EmptyGraph,
                      1, m.nin),
        IF m.self THEN 1 ELSE 0)

\* GetAttr needs the module's self input.
UsesSelf(prog) == \E i \in DOMAIN prog : prog[i].kind = "prim::GetAttr"

(***************************************************************************)
(* Options of one export call (_ExporterOptions) and the models exported   *)
(***************************************************************************)
\* _ExporterOptions.opset_version
opset_version == 12

ExportTypes == {"ONNX", "ONNX_ATEN", "ONNX_ATEN_FALLBACK", "ONNX_FALLTHROUGH"}

\* The names a caller passes; the second input name is also the name of a
\* parameter of the models that have parameters
UserInputNames  == <<"a", "weight", "c", "d", "e">>
UserOutputNames == <<"p", "q", "r", "s", "t">>

\* The first k names of a name list
FirstNames(names, k) == SubSeq(names, 1, k)

Models(progs, nins, nouts) ==
  { m \in [self : BOOLEAN, nin : nins, nout : nouts, prog : progs] :
      UsesSelf(m.prog) => m.self }

Options(types, innames, outnames, folding, strips) ==
  [operator_export_type : types, input_names : innames,
   output_names : outnames, do_constant_folding : folding,
   strip_doc_string : strips]

\* Values of (sym_hel._export_onnx_opset_version, sym_hel._operator_export_type,
\* sym_hel._onnx_shape_inference) a process can hold when export is called.
Flags(opsets, types, shapes) ==
  [opset_version : opsets, operator_export_type : types, onnx_shape_inference : shapes]

NoPrev ==
  [opset_version |-> << >>, operator_export_type |-> << >>, onnx_shape_inference |-> << >>]

(***************************************************************************)
(* State                                                                   *)
(***************************************************************************)
VARIABLES
  pc,              \* position in export() / _Exporter._convert
  err,             \* the exception raised, None while there is none
  sym_hel,         \* the three process-wide flags of torch.onnx.symbolic_helper
  before,          \* their values immediately before the call (history)
  in_onnx_export,  \* to_utils.is_in_onnx_export()
  prev,            \* locals prev_opset_version, prev_export_type, prev_shape_inference
  opts,            \* the options the _Exporter was constructed with
  model,           \* the callable to export, as the program its trace yields
  jit_log,         \* the calls optimize has made so far (history)
  g,               \* self.g
  self_id,         \* self.self_id (0: None)
  attrs,           \* self.attrs: value id -> dotted attribute path
  node_doc_string, \* self.node_doc_string: node -> documentation text
  work,            \* the pending calls of generate_onnx_node, innermost first
  lowered,         \* how many times generate_onnx_node has been entered (history)
  folded,          \* the names the constant folder returned
  val_tab,         \* value id -> ONNX value name
  onnx_vars,       \* value id -> name of the initializer made for it
  frames,          \* the running calls of generate_proto_nodes, innermost first
  warned,          \* whether warnings.warn was called
  onnx_model,      \* self.model, Nothing until built
  out              \* the destination f: whether it was opened, what was written

emitVars == <<folded, val_tab, onnx_vars, frames, warned, onnx_model>>

vars == <<pc, err, sym_hel, before, in_onnx_export, prev, opts, model, jit_log,
          g, self_id, attrs, node_doc_string, work, lowered, emitVars, out>>

exporterVars == <<g, self_id, attrs, node_doc_string, work>>

InitWith(models, options, flags, inExport) ==
  /\ pc = "convert"
  /\ err = None
  /\ sym_hel \in flags
  /\ before = sym_hel
  /\ in_onnx_export \in inExport
  /\ prev = NoPrev
  /\ opts \in options
  /\ model \in models
  /\ jit_log = << >>
  /\ g = EmptyGraph
  /\ self_id = 0
  /\ attrs = << >>
  /\ node_doc_string = << >>
  /\ work = << >>
  /\ lowered = 0
  /\ folded = << >>
  /\ val_tab = << >>
  /\ onnx_vars = << >>
  /\ frames = << >>
  /\ warned = FALSE
  /\ onnx_model = Nothing
  /\ out = [opened |-> FALSE, data |-> << >>]

\* An exception leaves the try block of _convert: the statements left are
\* skipped and the finally block runs.
Fails(e) ==
  /\ err' = e
  /\ pc' = "finally"

(***************************************************************************)
(* _Exporter._convert, lines 721-738                                       *)
(***************************************************************************)
\* assert not to_utils.is_in_onnx_export(), then the with block is entered
EnterConvert ==
  /\ pc = "convert"
  /\ IF in_onnx_export THEN Fails("AssertionError")
     ELSE pc' = "capture_opset" /\ err' = err
  /\ UNCHANGED <<sym_hel, before, in_onnx_export, prev, opts, model, jit_log,
                 exporterVars, lowered, emitVars, out>>

CaptureOpset ==
  /\ pc = "capture_opset"
  /\ prev' = [prev EXCEPT !.opset_version = Some(sym_hel.opset_version)]
  /\ pc' = "set_opset"
  /\ UNCHANGED <<err, sym_hel, before, in_onnx_export, opts, model, jit_log,
                 exporterVars, lowered, emitVars, out>>

SetOpset ==
  /\ pc = "set_opset"
  /\ sym_hel' = [sym_hel EXCEPT !.opset_version = opset_version]
  /\ pc' = "capture_export_type"
  /\ UNCHANGED <<err, before, in_onnx_export, prev, opts, model, jit_log,
                 exporterVars, lowered, emitVars, out>>

CaptureExportType ==
  /\ pc = "capture_export_type"
  /\ prev' = [prev EXCEPT !.operator_export_type = Some(sym_hel.operator_export_type)]
  /\ pc' = "set_export_type"
  /\ UNCHANGED <<err, sym_hel, before, in_onnx_export, opts, model, jit_log,
                 exporterVars, lowered, emitVars, out>>

SetExportType ==
  /\ pc = "set_export_type"
  /\ sym_hel' = [sym_hel EXCEPT !.operator_export_type = opts.operator_export_type]
  /\ pc' = "capture_shape_inference"
  /\ UNCHANGED <<err, before, in_onnx_export, prev, opts, model, jit_log,
                 exporterVars, lowered, emitVars, out>>

CaptureShapeInference ==
  /\ pc = "capture_shape_inference"
  /\ prev' = [prev EXCEPT !.onnx_shape_inference = Some(sym_hel.onnx_shape_inference)]
  /\ pc' = "set_shape_inference"
  /\ UNCHANGED <<err, sym_hel, before, in_onnx_export, opts, model, jit_log,
                 exporterVars, lowered, emitVars, out>>

SetShapeInference ==
  /\ pc = "set_shape_inference"
  /\ sym_hel' = [sym_hel EXCEPT !.onnx_shape_inference = FALSE]
  /\ pc' = "trace"
  /\ UNCHANGED <<err, before, in_onnx_export, prev, opts, model, jit_log,
                 exporterVars, lowered, emitVars, out>>

(***************************************************************************)
(* _Exporter._run_trace and _Exporter.optimize                             *)
(***************************************************************************)
\* Value.setDebugName: a value that already owns the name is renamed.
SetDebugName(gr, v, name) ==
  [gr EXCEPT !.dbg = [w \in DOMAIN gr.dbg |->
                        IF w = v THEN name
                        ELSE IF gr.dbg[w] = name /\ name # "" THEN name \o ".1"
                        ELSE gr.dbg[w]]]

\* Value.copyMetadata, as far as names go
CopyMetadata(gr, to, from) ==
  IF gr.dbg[from] # "" /\ to # from THEN SetDebugName(gr, to, gr.dbg[from]) ELSE gr

\* The loop of optimize over enumerate(input_names), from index idx (0-based)
RECURSIVE RenameInputs(_, _, _, _, _)
RenameInputs(gr, names, sid, idx, self_count) ==
  IF idx >= Len(names) THEN gr
  ELSE LET v == GraphInputs(gr)[idx + self_count + 1]
       IN  IF v = sid
           THEN RenameInputs(gr, names, sid, idx + 1, self_count + 1)
           ELSE RenameInputs(SetDebugName(gr, v, names[idx + 1]), names, sid,
                             idx + 1, self_count)

\* C9 variant: the assertion of line 263 only rejects a list that is too long
NameCountAtMost(gr, names, sid) ==
  Len(GraphInputs(gr)) >= Len(names) + (IF sid = 0 THEN 0 ELSE 1)

\* The assertion of line 263
NameCountMatches(gr, names, sid) ==
  Len(GraphInputs(gr)) = Len(names) + (IF sid = 0 THEN 0 ELSE 1)

\* The graph optimize returns for model m when the names fit
OptimizedGraph(m, names) ==
  RenameInputs(TracedGraph(m), names, IF m.self THEN 1 ELSE 0, 0, 0)

RunTrace ==
  /\ pc = "trace"
  /\ g' = TracedGraph(model)
  /\ self_id' = IF model.self THEN GraphInputs(g')[1] ELSE 0
  /\ pc' = "optimize"
  /\ UNCHANGED <<err, sym_hel, before, in_onnx_export, prev, opts, model, jit_log,
                 attrs, node_doc_string, work, lowered, emitVars, out>>

\* _ExporterOptions.torch_constant_prop
torch_constant_prop == TRUE

\* One call of optimize: a pass run through run_jit_pass, a pass called
\* directly, or a call of torch._C._jit_pass_lint
JitCall(call, pass) == [call |-> call, pass |-> pass]

\* run_jit_pass, lines 197-199: the pass, then the lint
run_jit_pass(pass) == <<pass, "_jit_pass_lint">>

\* What one call of optimize runs, in order
Runs(c) ==
  CASE c.call = "run_jit_pass" -> run_jit_pass(c.pass)
    [] c.call = "pass" -> <<c.pass>>
    [] c.call = "lint" -> <<"_jit_pass_lint">>

\* Lines 203-259: the calls of optimize, in order
OptimizeCalls(export_type) ==
  <<JitCall("run_jit_pass", "_jit_pass_inline_fork_wait")>>
  \o (IF torch_constant_prop
      THEN <<JitCall("run_jit_pass", "_jit_pass_constant_propagation")>> ELSE << >>)
  \o <<JitCall("run_jit_pass", "_jit_pass_dce"),
       JitCall("run_jit_pass", "_jit_pass_canonicalize_graph_fuser_ops"),
       JitCall("pass", "_jit_pass_peephole"),
       JitCall("run_jit_pass", "_jit_pass_fuse_addmm"),
       JitCall("pass", "_jit_pass_peephole"),
       JitCall("pass", "_jit_pass_lower_all_tuples"),
       JitCall("pass", "_jit_pass_onnx_preprocess"),
       JitCall("lint", ""),
       JitCall("pass", "_jit_pass_prepare_division_for_onnx"),
       JitCall("pass", "_jit_pass_onnx_remove_print"),
       JitCall("pass", "_jit_pass_onnx_preprocess_caffe2")>>
  \o (IF export_type = "ONNX_ATEN_FALLBACK"
      THEN <<JitCall("pass", "_jit_pass_onnx_unpack_quantized_weights"),
             JitCall("pass", "_jit_pass_onnx_quantization_insert_permutes"),
             JitCall("pass", "_jit_pass_custom_pattern_based_rewrite_graph")>>
      ELSE << >>)
  \o <<JitCall("pass", "_jit_pass_erase_number_types")>>

\* Everything the calls of a log ran, in order
RECURSIVE Ran(_)
Ran(log) == IF log = << >> THEN << >> ELSE Runs(Head(log)) \o Ran(Tail(log))

\* The next call of optimize.  The passes and the lint are torch's: a pass
\* leaves the graph of the model as it is, and a lint passes or raises (the
\* log is kept until the finally block has run).
OptimizePass ==
  /\ pc = "optimize"
  /\ Len(jit_log) < Len(OptimizeCalls(opts.operator_export_type))
  /\ LET c == OptimizeCalls(opts.operator_export_type)[Len(jit_log) + 1]
     IN  /\ jit_log' = Append(jit_log, c)
         /\ \E ok \in BOOLEAN :
              IF c.call \in {"run_jit_pass", "lint"} /\ ~ok
              THEN Fails("Exception")
              ELSE UNCHANGED <<pc, err>>
  /\ UNCHANGED <<sym_hel, before, in_onnx_export, prev, opts, model,
                 exporterVars, lowered, emitVars, out>>

\* The jit passes of optimize are torch's; what the repository's code does to
\* the graph is the renaming of its inputs.
Optimize ==
  /\ pc = "optimize"
  /\ Len(jit_log) = Len(OptimizeCalls(opts.operator_export_type))
  /\ IF opts.input_names = Nothing
     THEN Fails("AttributeError") /\ g' = g
     ELSE IF ~NameCountMatches(g, opts.input_names[1], self_id)
     THEN Fails("NameCountMismatch") /\ g' = g
     ELSE /\ g' = RenameInputs(g, opts.input_names[1], self_id, 0, 0)
          /\ pc' = "generate_onnx"
          /\ err' = err
  /\ UNCHANGED <<sym_hel, before, in_onnx_export, prev, opts, model, jit_log,
                 self_id, attrs, node_doc_string, work, lowered, emitVars, out>>

(***************************************************************************)
(* Symbolic lowering: generate_onnx (lines 638-641), generate_onnx_node,   *)
(* the handlers and run_symbolic_function                                  *)
(***************************************************************************)
Task(op, b, n) == [op |-> op, b |-> b, n |-> n]

\* list(b.nodes()) as the calls generate_onnx_node(b, n) to come
NodeTasks(gr, b) == [i \in DOMAIN gr.blocks[b].nodes |-> Task("node", b, gr.blocks[b].nodes[i])]

RECURSIVE BlockTasks(_, _)
BlockTasks(gr, blks) ==
  IF blks = <<>> THEN <<>>
  ELSE NodeTasks(gr, Head(blks)) \o BlockTasks(gr, Tail(blks))

\* sym_reg.is_registered_op(op, "", opset_version)
Registered == {"aten::relu", "aten::split", "aten::detach", "aten::miscount"}

\* _Exporter.symbolic_function: the registered lowering of the node's kind
symbolic_function(kind) == IF kind \in Registered THEN kind ELSE None

RECURSIVE Unsqueezed(_, _, _, _)
\* gen_concat: one Unsqueeze per scalar element, acc = the values to concatenate
Unsqueezed(gr, b, ins, acc) ==
  IF ins = <<>> THEN [g |-> gr, outs |-> acc]
  ELSE LET g1 == AddNode(gr, b, "onnx::Unsqueeze", <<Head(ins)>>, 1, "", <<>>)
       IN  Unsqueezed(g1, b, Tail(ins), acc \o LastOuts(g1))

\* sym_func(g, *node_inputs, **attrs): the nodes the lowering function f adds
\* to block b and the values it returns
SymFunc(gr, b, nd, f) ==
  CASE f = "aten::relu" ->
         LET g1 == AddNode(gr, b, "onnx::Relu", nd.ins, 1, "", <<>>)
         IN  [g |-> g1, outs |-> LastOuts(g1)]
    [] f = "aten::split" ->
         LET g1 == AddNode(gr, b, "onnx::Split", nd.ins, 2, "", <<>>)
         IN  [g |-> g1, outs |-> LastOuts(g1)]
    [] f = "aten::detach" -> [g |-> gr, outs |-> <<nd.ins[1]>>]
    [] f = "aten::miscount" ->
         LET g1 == AddNode(gr, b, "onnx::TopK", nd.ins, 2, "", <<>>)
         IN  [g |-> g1, outs |-> LastOuts(g1)]
    [] f = "gen_aten_node" ->
         LET g1 == AddNode(gr, b, "onnx::ATen", nd.ins, Len(nd.outs), nd.kind, <<>>)
         IN  [g |-> g1, outs |-> LastOuts(g1)]
    [] f = "gen_const" ->
         LET g1 == AddNode(gr, b, "onnx::Constant", <<>>, 1, nd.a, <<>>)
         IN  [g |-> g1, outs |-> LastOuts(g1)]
    [] f = "gen_concat" ->
         LET u  == Unsqueezed(gr, b, nd.ins, <<>>)
             g1 == AddNode(u.g, b, "onnx::Concat", u.outs, 1, "", <<>>)
         IN  [g |-> g1, outs |-> LastOuts(g1)]
    [] f = "gen_seq" ->
         LET g1 == AddNode(gr, b, IF nd.ins = <<>> THEN "onnx::SequenceEmpty"
                                  ELSE "onnx::SequenceConstruct", nd.ins, 1, "", <<>>)
         IN  [g |-> g1, outs |-> LastOuts(g1)]

\* The loop over zip(n.outputs(), sym_outs), from position i
RECURSIVE ReplaceOutputs(_, _, _, _)
ReplaceOutputs(gr, olds, news, i) ==
  IF i > Len(olds) \/ i > Len(news) THEN gr
  ELSE ReplaceOutputs(
         CopyMetadata(ReplaceAllUsesWith(gr, olds[i], news[i]), news[i], olds[i]),
         olds, news, i + 1)

\* C5 variant: run_symbolic_function without the assertion of line 432
run_symbolic_function_unchecked(gr, b, n, f) ==
  [g |-> ReplaceOutputs(SymFunc(gr, b, gr.nodes[n], f).g, gr.nodes[n].outs,
                        SymFunc(gr, b, gr.nodes[n], f).outs, 1),
   err |-> None]

\* _Exporter.run_symbolic_function on node n of block b with lowering f:
\* the graph afterwards and the exception, if any
run_symbolic_function(gr, b, n, f) ==
  LET nd == gr.nodes[n]
      r  == SymFunc(gr, b, nd, f)
  IN  IF Len(r.outs) # Len(nd.outs)
      THEN [g |-> r.g, err |-> "OutputArityMismatch"]
      ELSE [g |-> ReplaceOutputs(r.g, nd.outs, r.outs, 1), err |-> None]

\* generate_onnx, lines 638-639
StartLowering ==
  /\ pc = "generate_onnx"
  /\ work' = NodeTasks(g, RootBlock)
  /\ pc' = "lower"
  /\ UNCHANGED <<err, sym_hel, before, in_onnx_export, prev, opts, model, jit_log,
                 g, self_id, attrs, node_doc_string, lowered, emitVars, out>>

Lowering(kinds) ==
  /\ pc = "lower"
  /\ work # <<>>
  /\ Head(work).op = "node"
  /\ g.nodes[Head(work).n].kind \in kinds

\* The call returns: the next pending call runs
Returns ==
  /\ work' = Tail(work)
  /\ pc' = pc
  /\ err' = err

\* onnx_node_doc_string(onnx_node, torch_node), the nodes printed as their kinds
onnx_node_doc_string(onnx_node, torch_node) ==
  "## Symbolic node " \o onnx_node.kind \o " ## Original node " \o torch_node.kind

\* C21 variant: run_symbolic_function that documents the added nodes whether
\* or not the documentation is stripped
SymbolicDocsKept(strip, tab, gr, n, r) ==
  IF r.err # None THEN tab
  ELSE [k \in (DOMAIN r.g.nodes) \ (DOMAIN gr.nodes) |->
          onnx_node_doc_string(r.g.nodes[k], gr.nodes[n])] @@ tab

\* run_symbolic_function, lines 457-461, for node n of graph gr and the
\* result r of the rest of the call: the nodes the lowering added get their
\* documentation unless it is stripped
SymbolicDocs(strip, tab, gr, n, r) ==
  IF strip \/ r.err # None THEN tab
  ELSE [k \in (DOMAIN r.g.nodes) \ (DOMAIN gr.nodes) |->
          onnx_node_doc_string(r.g.nodes[k], gr.nodes[n])] @@ tab

\* The result r = [g, err] of run_symbolic_function on the node at the head
\* of work ends the call
Completes(r) ==
  /\ g' = r.g
  /\ node_doc_string' = SymbolicDocs(opts.strip_doc_string, node_doc_string,
                                     g, Head(work).n, r)
  /\ IF r.err = None THEN Returns ELSE Fails(r.err) /\ work' = work

\* handle_constant: a constant without value is left as it is
ConstantLowering(nd) == IF nd.a = "" THEN None ELSE "gen_const"

HandleConstant ==
  /\ Lowering({"prim::Constant"})
  /\ LET t == Head(work) IN
       IF ConstantLowering(g.nodes[t.n]) = None
       THEN g' = g /\ node_doc_string' = node_doc_string /\ Returns
       ELSE Completes(run_symbolic_function(g, t.b, t.n, ConstantLowering(g.nodes[t.n])))
  /\ lowered' = lowered + 1
  /\ UNCHANGED <<sym_hel, before, in_onnx_export, prev, opts, model, jit_log,
                 self_id, attrs, emitVars, out>>

HandleGetattr ==
  /\ Lowering({"prim::GetAttr"})
  /\ LET nd == g.nodes[Head(work).n] IN
       attrs' = (nd.outs[1] :> (IF nd.ins[1] = self_id THEN nd.a
                                ELSE attrs[nd.ins[1]] \o "." \o nd.a)) @@ attrs
  /\ Returns
  /\ lowered' = lowered + 1
  /\ UNCHANGED <<sym_hel, before, in_onnx_export, prev, opts, model, jit_log,
                 g, self_id, node_doc_string, emitVars, out>>

\* handle_list_construct: a list of integers is concatenated, any other
\* list becomes a sequence
ListLowering(nd) ==
  IF Len(nd.ins) > 0 /\ nd.a = "IntType" THEN "gen_concat" ELSE "gen_seq"

HandleListConstruct ==
  /\ Lowering({"prim::ListConstruct"})
  /\ LET t == Head(work) IN
       Completes(run_symbolic_function(g, t.b, t.n, ListLowering(g.nodes[t.n])))
  /\ lowered' = lowered + 1
  /\ UNCHANGED <<sym_hel, before, in_onnx_export, prev, opts, model, jit_log,
                 self_id, attrs, emitVars, out>>

\* handle_if up to its loop over the blocks: the nodes of the branch bodies
\* are lowered first, then the node is moved
HandleIf ==
  /\ Lowering({"prim::If"})
  /\ LET t == Head(work) IN
       work' = BlockTasks(g, g.nodes[t.n].blocks) \o <<Task("move", t.b, t.n)>> \o Tail(work)
  /\ lowered' = lowered + 1
  /\ UNCHANGED <<pc, err, sym_hel, before, in_onnx_export, prev, opts, model, jit_log,
                 g, self_id, attrs, node_doc_string, emitVars, out>>

\* C17 variant: handle_if that leaves the conditional where it is
LeftInPlace(gr, b, n) == gr

\* Node.moveBefore(g.return_node())
MoveBeforeReturn(gr, b, n) ==
  [gr EXCEPT !.blocks[b].nodes = SeqFilter(@, Range(@) \ {n}) \o <<n>>]

\* handle_if, lines 382-386: the documentation of the conditional is kept
\* unless it is stripped, then the node is moved
MoveIf ==
  /\ pc = "lower"
  /\ work # <<>>
  /\ Head(work).op = "move"
  /\ node_doc_string' =
       IF opts.strip_doc_string THEN node_doc_string
       ELSE (Head(work).n :> "## Original node prim::If") @@ node_doc_string
  /\ g' = MoveBeforeReturn(g, Head(work).b, Head(work).n)
  /\ Returns
  /\ UNCHANGED <<sym_hel, before, in_onnx_export, prev, opts, model, jit_log,
                 self_id, attrs, lowered, emitVars, out>>

Handlers == {"prim::Constant", "prim::GetAttr", "prim::ListConstruct", "prim::If"}

\* The lowering generate_onnx_node picks for a node of the given kind under
\* the given operator_export_type (None: the assertion of line 487 fails)
ChosenLowering(kind, export_type) ==
  LET f == symbolic_function(kind)
  IN  IF export_type \in {"ONNX_ATEN", "ONNX_FALLTHROUGH"}
         \/ (export_type = "ONNX_ATEN_FALLBACK" /\ f = None)
      THEN "gen_aten_node"
      ELSE f

\* The function run_symbolic_function is called with for node nd, None
\* when it is not called
SymbolicLowering(nd, export_type) ==
  CASE nd.kind = "prim::Constant" -> ConstantLowering(nd)
    [] nd.kind = "prim::ListConstruct" -> ListLowering(nd)
    [] nd.kind \in {"prim::GetAttr", "prim::If"} -> None
    [] OTHER -> ChosenLowering(nd.kind, export_type)

\* generate_onnx_node for a node without handler
LowerOp ==
  /\ pc = "lower"
  /\ work # <<>>
  /\ Head(work).op = "node"
  /\ g.nodes[Head(work).n].kind \notin Handlers
  /\ LET t == Head(work)
         f == ChosenLowering(g.nodes[t.n].kind, opts.operator_export_type)
     IN  IF f = None
         THEN /\ Fails("SymbolicFunctionNotFound")
              /\ UNCHANGED <<g, work, node_doc_string>>
         ELSE Completes(run_symbolic_function(g, t.b, t.n, f))
  /\ lowered' = lowered + 1
  /\ UNCHANGED <<sym_hel, before, in_onnx_export, prev, opts, model, jit_log,
                 self_id, attrs, emitVars, out>>

\* generate_onnx: the loop over target_nodes is over
EndLowering ==
  /\ pc = "lower"
  /\ work = <<>>
  /\ pc' = "dce"
  /\ UNCHANGED <<err, sym_hel, before, in_onnx_export, prev, opts, model, jit_log,
                 exporterVars, lowered, emitVars, out>>

(***************************************************************************)
(* Dead code elimination and lint (torch passes, as generate_onnx uses     *)
(* them through run_jit_pass)                                              *)
(***************************************************************************)
\* The values needed by the returns: the outputs of the graph, the inputs of
\* every node with a live output and the outputs of the blocks of such a node.
RECURSIVE LiveValues(_, _)
LiveValues(gr, L) ==
  LET liveNodes == {n \in Attached(gr) : Range(gr.nodes[n].outs) \cap L # {}}
      more == UNION {Range(gr.nodes[n].ins) : n \in liveNodes} \cup
              UNION {UNION {Range(gr.blocks[gr.nodes[n].blocks[i]].outputs)
                              : i \in DOMAIN gr.nodes[n].blocks} : n \in liveNodes}
  IN  IF more \subseteq L THEN L ELSE LiveValues(gr, L \cup more)

\* torch._C._jit_pass_dce_allow_deleting_nodes_with_side_effects
EliminateDeadCode(gr) ==
  LET L    == LiveValues(gr, Range(GraphOutputs(gr)))
      live == {n \in Attached(gr) : Range(gr.nodes[n].outs) \cap L # {}}
      deadBlocks == UNION {Range(gr.nodes[n].blocks) : n \in Attached(gr) \ live}
  IN  [gr EXCEPT !.blocks =
         [b \in DOMAIN gr.blocks |->
            IF b \in deadBlocks
            THEN [inputs |-> <<>>, nodes |-> <<>>, outputs |-> <<>>]
            ELSE [gr.blocks[b] EXCEPT !.nodes = SeqFilter(@, live)]]]

\* The node owning block b (0 for the graph itself) and the block it is in
Owner(gr, b) ==
  IF \E n \in Attached(gr) : b \in Range(gr.nodes[n].blocks)
  THEN CHOOSE n \in Attached(gr) : b \in Range(gr.nodes[n].blocks)
  ELSE 0

BlockOf(gr, n) == CHOOSE b \in DOMAIN gr.blocks : n \in Range(gr.blocks[b].nodes)

PositionOf(seq, x) == CHOOSE i \in DOMAIN seq : seq[i] = x

\* The values in scope in block b before its position pos
RECURSIVE InScope(_, _, _)
InScope(gr, b, pos) ==
  Range(gr.blocks[b].inputs) \cup
  UNION {Range(gr.nodes[gr.blocks[b].nodes[i]].outs) : i \in 1..(pos - 1)} \cup
  (IF Owner(gr, b) = 0 THEN {}
   ELSE LET o == Owner(gr, b)
            pb == BlockOf(gr, o)
        IN  InScope(gr, pb, PositionOf(gr.blocks[pb].nodes, o)))

\* torch._C._jit_pass_lint: every input of a node and every output of a block
\* is defined before it is used
Lint(gr) ==
  \A b \in DOMAIN gr.blocks :
    (b = RootBlock \/ Owner(gr, b) # 0) =>
      /\ \A i \in DOMAIN gr.blocks[b].nodes :
           Range(gr.nodes[gr.blocks[b].nodes[i]].ins) \subseteq InScope(gr, b, i)
      /\ Range(gr.blocks[b].outputs) \subseteq InScope(gr, b, Len(gr.blocks[b].nodes) + 1)

\* generate_onnx, lines 645-647: run_jit_pass(dce): the pass, then the lint
Dce ==
  /\ pc = "dce"
  /\ g' = EliminateDeadCode(g)
  /\ IF Lint(g') THEN pc' = "fold" /\ err' = err
     ELSE Fails("StructuralLintError")
  /\ UNCHANGED <<sym_hel, before, in_onnx_export, prev, opts, model, jit_log,
                 self_id, attrs, node_doc_string, work, lowered, emitVars, out>>

(***************************************************************************)
(* Constant folding: generate_onnx, lines 649-667                          *)
(***************************************************************************)
\* self.vars = traced.state_dict(): the parameters of the traced module
StateDictKeys(m) == IF m.self THEN {"weight", "sub.weight", "bias"} ELSE {}

\* Value.debugName(): the unique id when the value has no debug name
DebugName(gr, v) == IF gr.dbg[v] = "" THEN ToString(v) ELSE gr.dbg[v]

\* The node kinds the folder of torch can evaluate, among those of this model
FoldableKinds == {"onnx::Unsqueeze", "onnx::Concat"}

RemoveNode(gr, b, n) == [gr EXCEPT !.blocks[b].nodes = SeqFilter(@, Range(@) \ {n})]

\* A folded node whose operands include a known tensor: its result old
\* becomes the input just added to g1, and node n goes
FoldIntoInput(g1, old, n) ==
  RemoveNode(ReplaceAllUsesWith(g1, old, NumValues(g1)), RootBlock, n)

\* The onnx::Constant just added to g1 takes the place of node n of gr
Placed(gr, g1, n, pos) ==
  [g1 EXCEPT !.blocks[RootBlock].nodes =
     SubSeq(gr.blocks[RootBlock].nodes, 1, pos - 1) \o <<LastNode(g1)>> \o
     SubSeq(gr.blocks[RootBlock].nodes, pos + 1, Len(gr.blocks[RootBlock].nodes))]

\* A folded node whose operands are all literals: its result old becomes an
\* onnx::Constant in the place of the node
FoldIntoConstant(gr, g1, old, n) ==
  CopyMetadata(
    ReplaceAllUsesWith(Placed(gr, g1, n, PositionOf(gr.blocks[RootBlock].nodes, n)),
                       old, LastOuts(g1)[1]),
    LastOuts(g1)[1], old)

\* The outputs of the onnx::Constant nodes of gr
ConstantValues(gr) ==
  UNION {Range(gr.nodes[c].outs) :
           c \in {x \in Attached(gr) : gr.nodes[x].kind = "onnx::Constant"}}

\* Whether the folder of torch evaluates node n, given the known tensors
Folds(gr, n, params) ==
  /\ n \in Range(gr.blocks[RootBlock].nodes)
  /\ Len(gr.nodes[n].outs) = 1
  /\ gr.nodes[n].ins # <<>>
  /\ gr.nodes[n].kind \in FoldableKinds
  /\ Range(gr.nodes[n].ins) \subseteq (params \cup ConstantValues(gr))

\* The loop of torch's ConstantFoldONNX over the nodes of the root block;
\* st = [g, params]: params are the inputs that stand for known tensors
RECURSIVE FoldNodes(_, _)
FoldNodes(st, todo) ==
  IF todo = <<>> THEN st
  ELSE IF ~Folds(st.g, Head(todo), st.params)
  THEN FoldNodes(st, Tail(todo))
  ELSE IF Range(st.g.nodes[Head(todo)].ins) \cap st.params # {}
  THEN FoldNodes([g |-> FoldIntoInput(AddInput(st.g, ""),
                                      st.g.nodes[Head(todo)].outs[1], Head(todo)),
                  params |-> st.params \cup {NumValues(st.g) + 1}], Tail(todo))
  ELSE FoldNodes([g |-> FoldIntoConstant(
                          st.g,
                          AddNode(st.g, RootBlock, "onnx::Constant", <<>>, 1, "value", <<>>),
                          st.g.nodes[Head(todo)].outs[1], Head(todo)),
                  params |-> st.params], Tail(todo))

\* eraseUnusedBlockInputs of torch's folder
EraseUnusedInputs(g1) ==
  [g1 EXCEPT !.blocks[RootBlock].inputs =
     SeqFilter(@, {v \in Range(GraphInputs(g1)) : Uses(g1, v) # {}})]

DebugNames(gr, vs) == [i \in DOMAIN vs |-> DebugName(gr, vs[i])]

\* What the folder returns: the names of the inputs left that stand for
\* known tensors
FoldResult(g2, params) ==
  [g |-> g2, folded |-> DebugNames(g2, SeqFilter(GraphInputs(g2), params))]

\* torch._C._jit_pass_onnx_constant_fold(g, vars, opset_version): the graph
\* afterwards and the names of the inputs that stand for folded tensors
FoldPassEnd(st) == FoldResult(EraseUnusedInputs(EliminateDeadCode(st.g)), st.params)

ConstantFoldPass(gr, keys) ==
  FoldPassEnd(FoldNodes([g |-> EliminateDeadCode(gr),
                         params |-> {v \in Range(GraphInputs(gr)) : gr.dbg[v] \in keys}],
                        gr.blocks[RootBlock].nodes))

\* g.create("onnx::Constant", 1) and g.prependNode
Prepended(gr, g1) ==
  [g1 EXCEPT !.blocks[RootBlock].nodes = <<LastNode(g1)>> \o gr.blocks[RootBlock].nodes]

PrependConstant(gr) ==
  Prepended(gr, AddNode(gr, RootBlock, "onnx::Constant", <<>>, 1, "value", <<>>))

\* input_table[k].replaceAllUsesWith(c); c.copyMetadata(input_table[k]), c the
\* output of the constant just prepended to g1
ReplaceInput(g1, v) ==
  CopyMetadata(ReplaceAllUsesWith(g1, v, LastOuts(g1)[1]), LastOuts(g1)[1], v)

InputNamed(gr, k) == CHOOSE i \in Range(GraphInputs(gr)) : DebugName(gr, i) = k

\* The loop over folded.items(): st = [g, input_table], input_table the
\* names still in the table
RECURSIVE ReplaceFolded(_, _)
ReplaceFolded(st, names) ==
  IF names = <<>> THEN st
  ELSE ReplaceFolded([g |-> ReplaceInput(PrependConstant(st.g),
                                         InputNamed(st.g, Head(names))),
                      input_table |-> st.input_table \ {Head(names)}], Tail(names))

\* The loop of eraseInput(len(input_table)): count inputs erased at 0-based
\* index at; Block.eraseInput refuses an input that has uses
RECURSIVE EraseInputs(_, _, _)
EraseInputs(gr, at, count) ==
  IF count = 0 THEN [g |-> gr, err |-> None]
  ELSE IF Uses(gr, GraphInputs(gr)[at + 1]) # {}
  THEN [g |-> gr, err |-> "RuntimeError"]
  ELSE EraseInputs(
         [gr EXCEPT !.blocks[RootBlock].inputs =
            SubSeq(@, 1, at) \o SubSeq(@, at + 2, Len(@))],
         at, count - 1)

\* torch.onnx.constant_folding_opset_versions
constant_folding_opset_versions == {9, 10, 11, 12, 13}

\* The last DCE of the folding branch, which an exception skips
FoldEnd(e, names) ==
  [g |-> IF e.err = None THEN EliminateDeadCode(e.g) ELSE e.g,
   err |-> e.err, folded |-> names]

\* The eraseInput loop after the table lost the folded names
EraseFolded(st, names) ==
  FoldEnd(EraseInputs(st.g, Cardinality(st.input_table),
                      Len(GraphInputs(st.g)) - Cardinality(st.input_table)), names)

\* The replacement of the folded inputs by constants
ReplaceFoldedInputs(p) ==
  EraseFolded(ReplaceFolded([g |-> p.g,
                             input_table |-> {DebugName(p.g, i) : i \in Range(GraphInputs(p.g))}],
                            p.folded), p.folded)

\* Lines 650-667 on graph gr
FoldConstants(gr, keys) == ReplaceFoldedInputs(ConstantFoldPass(gr, keys))

\* The state after the folding branch returned r
Folded(r) ==
  /\ g' = r.g
  /\ folded' = r.folded
  /\ IF r.err = None THEN pc' = "emit" /\ err' = err ELSE Fails(r.err)

\* Line 661, for the result p = [g, folded] of the folder: each constant that
\* ReplaceFolded prepends is documented with the input it replaces
FoldedDocs(tab, p) ==
  [k \in {Len(p.g.nodes) + i : i \in DOMAIN p.folded} |->
     "Constant folded node: " \o p.folded[k - Len(p.g.nodes)]] @@ tab

Fold ==
  /\ pc = "fold"
  /\ IF opts.do_constant_folding /\ opset_version \in constant_folding_opset_versions
     THEN /\ Folded(FoldConstants(g, StateDictKeys(model)))
          /\ node_doc_string' =
               FoldedDocs(node_doc_string, ConstantFoldPass(g, StateDictKeys(model)))
     ELSE /\ g' = g
          /\ folded' = folded
          /\ node_doc_string' = node_doc_string
          /\ pc' = "emit"
          /\ err' = err
  /\ UNCHANGED <<sym_hel, before, in_onnx_export, prev, opts, model, jit_log,
                 self_id, attrs, work, lowered,
                 val_tab, onnx_vars, frames, warned, onnx_model, out>>

(***************************************************************************)
(* Emission: generate_proto_nodes (one frame per running call) and the     *)
(* rest of generate_onnx                                                   *)
(***************************************************************************)
\* n.kind().split("::")[-1]
OpType(kind) ==
  CASE kind = "prim::If" -> "If"
    [] kind = "prim::Constant" -> "Constant"
    [] kind = "prim::ListConstruct" -> "ListConstruct"
    [] kind = "prim::GetAttr" -> "GetAttr"
    [] kind = "aten::relu" -> "relu"
    [] kind = "aten::split" -> "split"
    [] kind = "aten::detach" -> "detach"
    [] kind = "aten::miscount" -> "miscount"
    [] kind = "aten::unregistered" -> "unregistered"
    [] kind = "onnx::Relu" -> "Relu"
    [] kind = "onnx::Split" -> "Split"
    [] kind = "onnx::TopK" -> "TopK"
    [] kind = "onnx::ATen" -> "ATen"
    [] kind = "onnx::Constant" -> "Constant"
    [] kind = "onnx::Unsqueeze" -> "Unsqueeze"
    [] kind = "onnx::Concat" -> "Concat"
    [] kind = "onnx::SequenceEmpty" -> "SequenceEmpty"
    [] kind = "onnx::SequenceConstruct" -> "SequenceConstruct"

\* value_name: the attribute alias, else the debug name (scope names are
\* taken to be empty)
value_name(gr, at, v) == IF v \in DOMAIN at THEN at[v] ELSE DebugName(gr, v)

Put(f, k, v) == (k :> v) @@ f

\* The frame of a call generate_proto_nodes(b, onnx_vars, val_tab)
Frame(gr, b) ==
  [b |-> b, todo |-> gr.blocks[b].nodes, node_name_counter |-> 0,
   onnx_nodes |-> <<>>, new_nd |-> Nothing, k |-> 0]

\* Lines 559-565: the input names applied to the inputs at positions idx..
\* (0-based); st = [val_tab, self_count]
RECURSIVE ApplyInputNames(_, _, _, _, _)
ApplyInputNames(tab, ins, names, sid, idx) ==
  IF idx > Len(ins) THEN tab
  ELSE LET self_count == Cardinality({j \in 1..idx : ins[j] = sid})
       IN  IF ins[idx] = sid THEN ApplyInputNames(tab, ins, names, sid, idx + 1)
           ELSE ApplyInputNames(Put(tab, ins[idx], names[idx - self_count]),
                                ins, names, sid, idx + 1)

\* Lines 569-572
RECURSIVE ApplyOutputNames(_, _, _, _)
ApplyOutputNames(tab, outs, names, idx) ==
  IF idx > Len(outs) \/ idx > Len(names) THEN tab
  ELSE ApplyOutputNames(Put(tab, outs[idx], names[idx]), outs, names, idx + 1)

NonSelf(ins, sid) == SeqFilter(ins, Range(ins) \ {sid})

\* The assignments val_tab[id] = name of lines 559-564, in the order the loop
\* over the inputs makes them
RECURSIVE InputNameWrites(_, _, _, _)
InputNameWrites(ins, names, sid, idx) ==
  IF idx > Len(ins) THEN << >>
  ELSE LET self_count == Cardinality({j \in 1..idx : ins[j] = sid})
       IN  IF ins[idx] = sid THEN InputNameWrites(ins, names, sid, idx + 1)
           ELSE <<[id |-> ins[idx], name |-> names[idx - self_count]]>>
                \o InputNameWrites(ins, names, sid, idx + 1)

\* The assignments val_tab[id] = name of lines 569-572
OutputNameWrites(outs, names) ==
  [idx \in 1..(IF Len(outs) < Len(names) THEN Len(outs) ELSE Len(names)) |->
     [id |-> outs[idx], name |-> names[idx]]]

\* The assignments the root call makes before its loop over the nodes
NameWrites ==
  (IF opts.input_names = Nothing THEN << >>
   ELSE InputNameWrites(GraphInputs(g), opts.input_names[1], self_id, 1))
  \o (IF opts.output_names = Nothing THEN << >>
      ELSE OutputNameWrites(GraphOutputs(g), opts.output_names[1]))

\* Lines 558-572, run only in the root graph
EmitStart ==
  /\ pc = "emit"
  /\ LET ins  == GraphInputs(g)
         outs == GraphOutputs(g)
         nin  == Len(NonSelf(ins, self_id))
         named == opts.input_names # Nothing
         t1 == IF named /\ nin <= Len(opts.input_names[1])
               THEN ApplyInputNames(val_tab, ins, opts.input_names[1], self_id, 1)
               ELSE val_tab
     IN  IF named /\ nin > Len(opts.input_names[1])
         THEN Fails("IndexError") /\ UNCHANGED <<val_tab, frames, warned>>
         ELSE IF named /\ nin # Len(opts.input_names[1])
         THEN Fails("NameCountMismatch") /\ val_tab' = t1 /\ UNCHANGED <<frames, warned>>
         ELSE /\ val_tab' = IF opts.output_names = Nothing THEN t1
                            ELSE ApplyOutputNames(t1, outs, opts.output_names[1], 1)
              /\ warned' = (warned \/ (opts.output_names # Nothing /\
                                       Len(opts.output_names[1]) # Len(outs)))
              /\ frames' = <<Frame(g, RootBlock)>>
              /\ pc' = "emit_nodes"
              /\ err' = err
  /\ UNCHANGED <<sym_hel, before, in_onnx_export, prev, opts, model, jit_log,
                 exporterVars, lowered, folded, onnx_vars, onnx_model, out>>

\* Lines 578-588: st = [val_tab, onnx_vars, err] over the inputs of a node
RECURSIVE NameInputs(_, _, _)
NameInputs(st, ins, keys) ==
  IF ins = <<>> \/ st.err # None THEN st
  ELSE LET i == Head(ins) IN
       IF i = self_id THEN NameInputs(st, Tail(ins), keys)
       ELSE IF i \in DOMAIN attrs /\ i \notin DOMAIN st.onnx_vars /\ attrs[i] \notin keys
       THEN [st EXCEPT !.err = "KeyError"]
       ELSE NameInputs(
              [st EXCEPT
                 !.onnx_vars = IF i \in DOMAIN attrs /\ i \notin DOMAIN @
                               THEN Put(@, i, attrs[i]) ELSE @,
                 !.val_tab = IF i \in DOMAIN @ THEN @ ELSE Put(@, i, value_name(g, attrs, i))],
              Tail(ins), keys)

\* Lines 590-593
RECURSIVE NameOutputs(_, _)
NameOutputs(tab, outs) ==
  IF outs = <<>> THEN tab
  ELSE NameOutputs(IF Head(outs) \in DOMAIN tab THEN tab
                   ELSE Put(tab, Head(outs), value_name(g, attrs, Head(outs))),
                   Tail(outs))

\* assign_onnx_values: st = [val_tab, names]
RECURSIVE assign_onnx_values(_, _)
assign_onnx_values(st, vs) ==
  IF vs = <<>> THEN st
  ELSE LET v == Head(vs)
           k == IF v \in DOMAIN st.val_tab THEN st.val_tab[v] ELSE value_name(g, attrs, v)
       IN  assign_onnx_values([val_tab |-> Put(st.val_tab, v, k),
                               names |-> Append(st.names, k)], Tail(vs))

\* node_name: the counter of the call after the increment names the node
node_name(kind, counter) == OpType(kind) \o "_" \o ToString(counter)

Emitting ==
  /\ pc = "emit_nodes"
  /\ frames # <<>>
  /\ Head(frames).todo # <<>>

Skipped(nd) ==
  \/ nd.kind = "prim::GetAttr"
  \/ nd.kind = "onnx::Constant" /\ Uses(g, nd.outs[1]) = {}

\* One iteration of the loop over g.nodes() for a node that is not a prim::If
EmitNode ==
  /\ Emitting
  /\ LET fr == Head(frames)
         nd == g.nodes[Head(fr.todo)]
     IN
     /\ nd.kind # "prim::If"
     /\ IF Skipped(nd)
        THEN /\ frames' = <<[fr EXCEPT !.todo = Tail(@)]>> \o Tail(frames)
             /\ UNCHANGED <<pc, err, val_tab, onnx_vars>>
        ELSE LET st == NameInputs([val_tab |-> val_tab, onnx_vars |-> onnx_vars, err |-> None],
                                  nd.ins, StateDictKeys(model))
                 t1 == NameOutputs(st.val_tab, nd.outs)
                 counter == fr.node_name_counter + 1
                 a1 == assign_onnx_values([val_tab |-> t1, names |-> <<>>], nd.ins)
                 a2 == assign_onnx_values([val_tab |-> a1.val_tab, names |-> <<>>], nd.outs)
                 new_nd == [name |-> node_name(nd.kind, counter), op_type |-> OpType(nd.kind),
                            input |-> a1.names, output |-> a2.names, attribute |-> <<>>,
                            doc_string |-> IF Head(fr.todo) \in DOMAIN node_doc_string
                                           THEN node_doc_string[Head(fr.todo)] ELSE ""]
             IN  IF st.err # None
                 THEN Fails(st.err) /\ UNCHANGED <<val_tab, onnx_vars, frames>>
                 ELSE IF nd.blocks # <<>>
                 THEN Fails("AssertionError") /\ UNCHANGED <<val_tab, onnx_vars, frames>>
                 ELSE /\ val_tab' = a2.val_tab
                      /\ onnx_vars' = st.onnx_vars
                      /\ frames' = <<[fr EXCEPT !.todo = Tail(@),
                                               !.node_name_counter = counter,
                                               !.onnx_nodes = Append(@, new_nd)]>> \o Tail(frames)
                      /\ UNCHANGED <<pc, err>>
  /\ UNCHANGED <<sym_hel, before, in_onnx_export, prev, opts, model, jit_log,
                 exporterVars, lowered, folded, warned, onnx_model, out>>

\* The iteration for a prim::If up to the first call of block2subgraph
EmitIf ==
  /\ Emitting
  /\ Head(frames).new_nd = Nothing
  /\ LET fr == Head(frames)
         nd == g.nodes[Head(fr.todo)]
         st == NameInputs([val_tab |-> val_tab, onnx_vars |-> onnx_vars, err |-> None],
                          nd.ins, StateDictKeys(model))
         t1 == NameOutputs(st.val_tab, nd.outs)
         counter == fr.node_name_counter + 1
         new_nd == [name |-> node_name(nd.kind, counter), op_type |-> OpType(nd.kind),
                    input |-> <<>>, output |-> <<>>, attribute |-> <<>>,
                    doc_string |-> IF Head(fr.todo) \in DOMAIN node_doc_string
                                   THEN "## Symbolic node prim::If "
                                        \o node_doc_string[Head(fr.todo)]
                                   ELSE ""]
     IN
     /\ nd.kind = "prim::If"
     /\ IF st.err # None
        THEN Fails(st.err) /\ UNCHANGED <<val_tab, onnx_vars, frames>>
        ELSE IF Len(nd.blocks) # 2
        THEN /\ Fails("BranchCountError")
             /\ val_tab' = t1
             /\ onnx_vars' = st.onnx_vars
             /\ frames' = frames
        ELSE /\ val_tab' = t1
             /\ onnx_vars' = st.onnx_vars
             /\ frames' = <<Frame(g, nd.blocks[1]),
                            [fr EXCEPT !.node_name_counter = counter,
                                       !.new_nd = Some(new_nd), !.k = 1]>> \o Tail(frames)
             /\ UNCHANGED <<pc, err>>
  /\ UNCHANGED <<sym_hel, before, in_onnx_export, prev, opts, model, jit_log,
                 exporterVars, lowered, folded, warned, onnx_model, out>>

BranchAttr == <<"then_branch", "else_branch">>

\* The doc_string fields of the value descriptors made for the values vs:
\* repr(v) unless the documentation is stripped (lines 534-541 and 673-678)
ValueDocs(strip, vs) ==
  [i \in DOMAIN vs |-> IF strip THEN "" ELSE "repr " \o ToString(vs[i])]

\* C7 variant: block2subgraph that declares no output
block2subgraph_without_outputs(name, b, doc_string, branch_nodes, tab) ==
  IF (Range(g.blocks[b].inputs) \cup Range(g.blocks[b].outputs)) \subseteq DOMAIN tab
  THEN Some([name |-> name, node |-> branch_nodes,
             input |-> [i \in DOMAIN g.blocks[b].inputs |-> tab[g.blocks[b].inputs[i]]],
             input_doc_string |-> ValueDocs(opts.strip_doc_string, g.blocks[b].inputs),
             output |-> << >>,
             output_doc_string |-> << >>,
             doc_string |-> doc_string])
  ELSE Nothing

\* block2subgraph after its call of generate_proto_nodes: the descriptors of
\* the block's inputs and outputs and the subgraph (Nothing on a KeyError)
block2subgraph(name, b, doc_string, branch_nodes, tab) ==
  IF (Range(g.blocks[b].inputs) \cup Range(g.blocks[b].outputs)) \subseteq DOMAIN tab
  THEN Some([name |-> name, node |-> branch_nodes,
             input |-> [i \in DOMAIN g.blocks[b].inputs |-> tab[g.blocks[b].inputs[i]]],
             input_doc_string |-> ValueDocs(opts.strip_doc_string, g.blocks[b].inputs),
             output |-> [i \in DOMAIN g.blocks[b].outputs |-> tab[g.blocks[b].outputs[i]]],
             output_doc_string |-> ValueDocs(opts.strip_doc_string, g.blocks[b].outputs),
             doc_string |-> doc_string])
  ELSE Nothing

\* A nested call of generate_proto_nodes returns into block2subgraph; after
\* the second branch the prim::If node is completed (lines 630-632)
EmitBranchReturn ==
  /\ pc = "emit_nodes"
  /\ Len(frames) > 1
  /\ Head(frames).todo = <<>>
  /\ LET sub == Head(frames)
         fr  == frames[2]
         nd  == g.nodes[Head(fr.todo)]
         sg  == block2subgraph(fr.new_nd[1].name \o "_" \o BranchAttr[fr.k], sub.b,
                               fr.new_nd[1].doc_string,
                               sub.onnx_nodes, val_tab)
         nd1 == [fr.new_nd[1] EXCEPT !.attribute =
                   Append(@, [name |-> BranchAttr[fr.k], g |-> sg[1]])]
         a1 == assign_onnx_values([val_tab |-> val_tab, names |-> <<>>], nd.ins)
         a2 == assign_onnx_values([val_tab |-> a1.val_tab, names |-> <<>>], nd.outs)
     IN  IF sg = Nothing
         THEN Fails("KeyError") /\ UNCHANGED <<val_tab, frames>>
         ELSE IF fr.k < 2
         THEN /\ frames' = <<Frame(g, nd.blocks[fr.k + 1]),
                             [fr EXCEPT !.new_nd = Some(nd1), !.k = @ + 1]>> \o Tail(Tail(frames))
              /\ UNCHANGED <<pc, err, val_tab>>
         ELSE /\ val_tab' = a2.val_tab
              /\ frames' = <<[fr EXCEPT !.todo = Tail(@), !.new_nd = Nothing, !.k = 0,
                                        !.onnx_nodes = Append(@,
                                           [nd1 EXCEPT !.input = a1.names,
                                                       !.output = a2.names])]>>
                           \o Tail(Tail(frames))
              /\ UNCHANGED <<pc, err>>
  /\ UNCHANGED <<sym_hel, before, in_onnx_export, prev, opts, model, jit_log,
                 exporterVars, lowered, folded, onnx_vars, warned, onnx_model, out>>

\* generate_onnx, lines 680-718: the value descriptors and the graph
EmitReturn ==
  /\ pc = "emit_nodes"
  /\ Len(frames) = 1
  /\ Head(frames).todo = <<>>
  /\ LET ins  == NonSelf(GraphInputs(g), self_id)
         outs == GraphOutputs(g)
     IN  IF \E i \in DOMAIN ins : Uses(g, ins[i]) = {}
         THEN Fails("AssertionError") /\ onnx_model' = onnx_model
         ELSE IF ~((Range(ins) \cup Range(outs)) \subseteq DOMAIN val_tab)
         THEN Fails("KeyError") /\ onnx_model' = onnx_model
         ELSE /\ onnx_model' = Some(
                   [node |-> Head(frames).onnx_nodes,
                    input |-> [i \in DOMAIN ins |-> val_tab[ins[i]]],
                    input_doc_string |-> ValueDocs(opts.strip_doc_string, ins),
                    output |-> [i \in DOMAIN outs |-> val_tab[outs[i]]],
                    output_doc_string |-> ValueDocs(opts.strip_doc_string, outs),
                    initializer |-> onnx_vars,
                    doc_string |-> IF opts.strip_doc_string THEN ""
                                   ELSE "# Model: original_name"])
              /\ pc' = "check_model"
              /\ err' = err
  /\ frames' = <<>>
  /\ UNCHANGED <<sym_hel, before, in_onnx_export, prev, opts, model, jit_log,
                 exporterVars, lowered, folded, val_tab, onnx_vars, warned, out>>

\* check_model: shape inference and the checker of onnx accept the model
CheckModel ==
  /\ pc = "check_model"
  /\ pc' = "finally"
  /\ UNCHANGED <<err, sym_hel, before, in_onnx_export, prev, opts, model, jit_log,
                 exporterVars, lowered, emitVars, out>>

(***************************************************************************)
(* The finally block of _convert, generate and export                      *)
(***************************************************************************)
\* Lines 741-746
RestoreFlags(flags, p) ==
  LET s1 == IF p.opset_version # << >>
            THEN [flags EXCEPT !.opset_version = p.opset_version[1]] ELSE flags
      s2 == IF p.onnx_shape_inference # << >>
            THEN [s1 EXCEPT !.operator_export_type =
                    IF p.operator_export_type = << >> THEN None
                    ELSE p.operator_export_type[1]]
            ELSE s1
  IN  IF p.onnx_shape_inference # << >>
      THEN [s2 EXCEPT !.onnx_shape_inference = p.onnx_shape_inference[1]] ELSE s2

\* C2 variant: export calls generate whether or not the constructor raised
AfterConvertAlways(e) == "generate"

\* export, lines 762-763: generate runs only when the constructor returned
AfterConvert(e) == IF e = None THEN "generate" ELSE "raised"

\* An exception leaves _Exporter.__init__ and export: the half-built exporter
\* is dropped with it
Dropped ==
  /\ g' = EmptyGraph /\ self_id' = 0 /\ attrs' = << >> /\ work' = << >>
  /\ node_doc_string' = << >>
  /\ folded' = << >> /\ val_tab' = << >> /\ onnx_vars' = << >> /\ frames' = << >>
  /\ onnx_model' = Nothing
  /\ jit_log' = << >>
  /\ warned' = warned

\* The finally block
Finally ==
  /\ pc = "finally"
  /\ sym_hel' = RestoreFlags(sym_hel, prev)
  /\ pc' = AfterConvert(err)
  /\ IF err = None THEN UNCHANGED <<exporterVars, emitVars, jit_log>> ELSE Dropped
  /\ UNCHANGED <<err, before, in_onnx_export, prev, opts, model, lowered, out>>

\* _Exporter.generate: f is a path (opened, then written) or an open stream
Generate ==
  /\ pc = "generate"
  /\ \E isPath \in BOOLEAN :
       out' = [opened |-> isPath, data |-> Append(out.data, onnx_model[1])]
  /\ pc' = "done"
  /\ UNCHANGED <<err, sym_hel, before, in_onnx_export, prev, opts, model, jit_log,
                 exporterVars, lowered, emitVars>>

\* An exception raised by the code the exporter calls (torch, the lowering
\* functions, onnx) or arriving between two statements of the try block
TryBlock ==
  {"capture_opset", "set_opset", "capture_export_type", "set_export_type",
   "capture_shape_inference", "set_shape_inference", "trace", "optimize",
   "generate_onnx", "lower", "dce", "fold", "emit", "emit_nodes", "check_model"}

Raise ==
  /\ pc \in TryBlock
  /\ Fails("Exception")
  /\ Dropped
  /\ UNCHANGED <<sym_hel, before, in_onnx_export, prev, opts, model, lowered, out>>

Next ==
  \/ EnterConvert \/ CaptureOpset \/ SetOpset \/ CaptureExportType \/ SetExportType
  \/ CaptureShapeInference \/ SetShapeInference
  \/ RunTrace \/ OptimizePass \/ Optimize
  \/ StartLowering \/ HandleConstant \/ HandleGetattr \/ HandleListConstruct
  \/ HandleIf \/ MoveIf \/ LowerOp \/ EndLowering
  \/ Dce \/ Fold
  \/ EmitStart \/ EmitNode \/ EmitIf \/ EmitBranchReturn \/ EmitReturn \/ CheckModel
  \/ Finally \/ Generate \/ Raise

(***************************************************************************)
(* The export call as its caller sees it                                   *)
(***************************************************************************)
\* export has returned or raised
Returned == pc \in {"done", "raised"}


\* Nothing was opened and nothing was written
Untouched == out = [opened |-> FALSE, data |-> << >>]

\* The nodes of a list of emitted nodes, those of their subgraphs included
RECURSIVE EmittedNodes(_)
EmittedNodes(nodes) ==
  IF nodes = << >> THEN {}
  ELSE {Head(nodes)}
       \cup UNION {EmittedNodes(Head(nodes).attribute[i].g.node) :
                     i \in DOMAIN Head(nodes).attribute}
       \cup EmittedNodes(Tail(nodes))

\* The subgraphs attached to the nodes of a list of emitted nodes, at every
\* depth
Subgraphs(nodes) ==
  UNION {{n.attribute[i].g : i \in DOMAIN n.attribute} : n \in EmittedNodes(nodes)}

\* The names the nodes of an emitted list before position j produce
ProducedBefore(nodes, j) == UNION {Range(nodes[k].output) : k \in 1..(j - 1)}

\* The display names of the nodes of a list of emitted nodes, those of the
\* nodes of their subgraphs included, one entry per node
RECURSIVE NodeNames(_)
RECURSIVE BranchNodeNames(_, _)
BranchNodeNames(attribute, i) ==
  IF i > Len(attribute) THEN << >>
  ELSE NodeNames(attribute[i].g.node) \o BranchNodeNames(attribute, i + 1)

NodeNames(nodes) ==
  IF nodes = << >> THEN << >>
  ELSE <<Head(nodes).name>> \o BranchNodeNames(Head(nodes).attribute, 1)
       \o NodeNames(Tail(nodes))

\* Whether every node of an emitted list, and of the subgraphs below it,
\* comes after the producers of its inputs: an input that some node of the
\* model produces (all) is produced earlier in the list or is in avail, the
\* names produced before the conditional the list belongs to
RECURSIVE WellOrdered(_, _, _)
WellOrdered(nodes, avail, all) ==
  \A j \in DOMAIN nodes :
    /\ (Range(nodes[j].input) \cap all) \subseteq (avail \cup ProducedBefore(nodes, j))
    /\ \A i \in DOMAIN nodes[j].attribute :
         WellOrdered(nodes[j].attribute[i].g.node, avail \cup ProducedBefore(nodes, j), all)

\* The names the nodes of an emitted model produce
AllProduced(nodes) == UNION {Range(n.output) : n \in EmittedNodes(nodes)}

\* The name value v of the root graph gets when output_names does not name
\* it: the input name when it is a named input, else the name value_name
\* derives
DerivedName(v) ==
  IF opts.input_names # Nothing /\ v \in Range(NonSelf(GraphInputs(g), self_id))
  THEN ApplyInputNames(<< >>, GraphInputs(g), opts.input_names[1], self_id, 1)[v]
  ELSE value_name(g, attrs, v)

\* The kinds of the nodes of one item, nested ones included
KindsOf(it) == {it.kind} \cup (IF it.nb = 0 THEN {} ELSE Range(it.body))

KindsIn(prog) == UNION {KindsOf(prog[i]) : i \in DOMAIN prog}

(***************************************************************************)
(* Claims                                                                  *)
(***************************************************************************)
\* C1: when an export call returns, whether it completed or failed at any
\* step after entry, each of the three process-wide flags (opset version,
\* operator export type, shape inference) equals its value before the call.
FlagsRestored == Returned => sym_hel = before

\* C2: the destination is opened and written only after every stage,
\* validation included, completed without error; when a stage fails the
\* failure reaches the caller and nothing is opened or written.
WriteOnlyAfterValidation ==
  /\ pc \in {"generate", "done"} => err = None /\ onnx_model # Nothing
  /\ pc # "done" => Untouched
  /\ pc = "done" => out.data = onnx_model
  /\ pc = "raised" => err # None

\* C2 witness: a validated model was written to a file opened for it
WrittenAfterValidation ==
  pc = "done" /\ out.opened /\ out.data = onnx_model /\ Len(onnx_model[1].node) > 0


\* C3: in standard mode, when a node outside the four special kinds, at the
\* top level or nested in branch bodies, has no registered lowering function
\* (and no node lowered before it fails), the export raises
\* symbolic-function-not-found and produces no output bytes.
UnregisteredNodeRaises ==
  ( /\ opts.operator_export_type = "ONNX"
    /\ "aten::unregistered" \in KindsIn(model.prog)
    /\ "aten::miscount" \notin KindsIn(model.prog)
    /\ Returned
    /\ err # "Exception" )
  => (pc = "raised" /\ err = "SymbolicFunctionNotFound" /\ Untouched)

\* C4: the export with default options of a model that returns its single
\* tensor input completes, and the graph has one input, one output, no node
\* (or one passthrough) and no initializer.
IdentityExports ==
  ( /\ model.prog = << >> /\ model.nin = 1 /\ model.nout = 1
    /\ opts.input_names = Nothing /\ opts.output_names = Nothing
    /\ Returned
    /\ err # "Exception" )
  => ( /\ pc = "done"
       /\ onnx_model # Nothing
       /\ Len(onnx_model[1].input) = 1
       /\ Len(onnx_model[1].output) = 1
       /\ Len(onnx_model[1].node) <= 1
       /\ DOMAIN onnx_model[1].initializer = {} )

\* C5: for every node lowered by run_symbolic_function, the result of the
\* lowering function has as many values as the node has outputs; when the
\* counts differ the export fails with an arity-mismatch error and no
\* consumer of the node has been rewired.
ArityChecked ==
  [][ ( /\ pc = "lower" /\ work # << >> /\ Head(work).op = "node"
        /\ lowered' = lowered + 1
        /\ SymbolicLowering(g.nodes[Head(work).n], opts.operator_export_type) # None )
      => LET nd  == g.nodes[Head(work).n]
             res == SymFunc(g, Head(work).b, nd,
                            SymbolicLowering(nd, opts.operator_export_type)).outs
         IN  IF Len(res) = Len(nd.outs)
             THEN err' = None /\ pc' = "lower"
             ELSE /\ err' = "OutputArityMismatch"
                  /\ pc' = "finally"
                  /\ \A o \in Range(nd.outs) : Uses(g, o) # {} /\ Uses(g', o) = Uses(g, o)
    ]_vars

\* C5 witness: a lowering function returned the wrong number of values, the
\* export is failing and the consumers of the node still read its outputs
ArityMismatchRaised ==
  /\ pc = "finally" /\ err = "OutputArityMismatch"
  /\ work # << >>
  /\ g.nodes[Head(work).n].kind = "aten::miscount"
  /\ \E n \in Attached(g) : g.nodes[n].kind = "onnx::TopK"
  /\ \A o \in Range(g.nodes[Head(work).n].outs) : Uses(g, o) # {}

\* C6: after run_symbolic_function replaced the outputs o1..ok of a node by
\* n1..nk, no consumer anywhere in the graph (nodes, nodes of nested branch
\* bodies, return nodes) references an oi, and every former consumer of oi
\* references ni.
OutputsRewired ==
  [][ ( /\ pc = "lower" /\ work # << >> /\ Head(work).op = "node"
        /\ lowered' = lowered + 1
        /\ SymbolicLowering(g.nodes[Head(work).n], opts.operator_export_type) # None
        /\ err' = None )
      => LET nd  == g.nodes[Head(work).n]
             res == SymFunc(g, Head(work).b, nd,
                            SymbolicLowering(nd, opts.operator_export_type)).outs
         IN  \A i \in DOMAIN nd.outs :
               /\ Uses(g', nd.outs[i]) = {}
               /\ Uses(g, nd.outs[i]) \subseteq Uses(g', res[i])
    ]_vars

\* C6 witness: the two outputs of a lowered split have no consumer left, and
\* the outputs that replaced them are read by a node of a branch body
RewiredEverywhere ==
  /\ pc = "lower"
  /\ \E n \in Attached(g) :
       /\ g.nodes[n].kind = "aten::split"
       /\ \A o \in Range(g.nodes[n].outs) : Uses(g, o) = {}
  /\ \E m \in Attached(g) :
       /\ g.nodes[m].kind = "onnx::Split"
       /\ \A o \in Range(g.nodes[m].outs) :
            \E u \in Uses(g, o) :
              u[1] = "node" /\ u[2] \notin Range(g.blocks[RootBlock].nodes)

\* C7: every conditional node emitted carries exactly two subgraphs,
\* then_branch and else_branch in that order, each with as many declared
\* inputs and outputs as the block it comes from; a conditional with another
\* number of blocks aborts the export.
TwoBranches ==
  [][ /\ ( /\ pc = "emit_nodes" /\ Len(frames) > 1 /\ Head(frames).todo = << >>
           /\ frames[2].k = 2
           /\ pc' = "emit_nodes" )
         => LET nd  == g.nodes[Head(frames[2].todo)]
                new == Head(frames').onnx_nodes[Len(Head(frames').onnx_nodes)]
            IN  /\ new.op_type = "If"
                /\ Len(nd.blocks) = 2
                /\ [i \in DOMAIN new.attribute |-> new.attribute[i].name] = BranchAttr
                /\ \A i \in DOMAIN new.attribute :
                     /\ Len(new.attribute[i].g.input) = Len(g.blocks[nd.blocks[i]].inputs)
                     /\ Len(new.attribute[i].g.output) = Len(g.blocks[nd.blocks[i]].outputs)
      /\ ( /\ Emitting
           /\ g.nodes[Head(Head(frames).todo)].kind = "prim::If"
           /\ Len(g.nodes[Head(Head(frames).todo)].blocks) # 2 )
         => pc' = "finally" /\ err' # None
      /\ onnx_model' # Nothing
         => \A n \in EmittedNodes(onnx_model'[1].node) :
              n.op_type = "If" => Len(n.attribute) = 2
    ]_vars

\* C7 witness: the emitted graph holds a conditional whose then_branch holds
\* a conditional
NestedBranchesEmitted ==
  /\ pc = "check_model"
  /\ \E i \in DOMAIN onnx_model[1].node :
       /\ onnx_model[1].node[i].op_type = "If"
       /\ Len(onnx_model[1].node[i].attribute) = 2
       /\ \E j \in DOMAIN onnx_model[1].node[i].attribute[1].g.node :
            onnx_model[1].node[i].attribute[1].g.node[j].op_type = "If"

\* C8: for every graph input removed because its value was folded, the
\* emitted graph holds the literal in its initializer list under the input's
\* name, does not list the input, and no emitted node reads it.
FoldedInputsBecomeInitializers ==
  ( /\ pc = "finally" /\ err # "Exception"
    /\ opts.input_names # Nothing
    /\ NameCountMatches(TracedGraph(model), opts.input_names[1], IF model.self THEN 1 ELSE 0)
    /\ folded # << >> )
  => /\ err = None
     /\ onnx_model # Nothing
     /\ \A v \in Range(GraphInputs(OptimizedGraph(model, opts.input_names[1])))
                   \ (Range(GraphInputs(g)) \cup {self_id}) :
          LET name == DebugName(OptimizedGraph(model, opts.input_names[1]), v)
          IN  /\ \E k \in DOMAIN onnx_model[1].initializer :
                   onnx_model[1].initializer[k] = name
              /\ name \notin Range(onnx_model[1].input)
              /\ \A n \in EmittedNodes(onnx_model[1].node) : name \notin Range(n.input)

\* C9: when input_names is supplied and its length differs from the number
\* of inputs of the traced graph other than self, the export fails with a
\* name-count mismatch in optimize, before generate_onnx_node ran on any node.
NameCountChecked ==
  (opts.input_names # Nothing /\ Len(opts.input_names[1]) # model.nin)
  => /\ pc \in {"convert", "capture_opset", "set_opset", "capture_export_type",
               "set_export_type", "capture_shape_inference", "set_shape_inference",
               "trace", "optimize", "finally", "raised"}
     /\ lowered = 0
     /\ Returned /\ err # "Exception" => pc = "raised" /\ err = "NameCountMismatch"

\* C9 witness: an export of a model with nodes failed on the count of its
\* input names, and no node was lowered
NameCountRaised ==
  /\ pc = "raised" /\ err = "NameCountMismatch" /\ lowered = 0
  /\ model.prog # << >>
  /\ Len(opts.input_names[1]) < model.nin

\* C10: when output_names holds m names and the root graph has k outputs,
\* m # k, the export is not aborted: a warning is issued, the first
\* min(m, k) outputs carry the supplied names in order, surplus names are
\* ignored and the other outputs keep their derived names.
OutputNamesTolerated ==
  ( /\ opts.output_names # Nothing
    /\ Len(opts.output_names[1]) # model.nout
    /\ opts.input_names = Nothing \/ Len(opts.input_names[1]) = model.nin
    /\ KindsIn(model.prog) \cap {"aten::unregistered", "aten::miscount"} = {}
    /\ \A i \in DOMAIN model.prog : model.prog[i].kind = "prim::If" => model.prog[i].nb = 2
    /\ model.nin = 1
    /\ Returned
    /\ err # "Exception" )
  => /\ pc = "done"
     /\ warned
     /\ Len(onnx_model[1].output) = model.nout
     /\ \A i \in 1..model.nout :
          onnx_model[1].output[i] =
            IF i <= Len(opts.output_names[1]) THEN opts.output_names[1][i]
            ELSE DerivedName(GraphOutputs(g)[i])

\* C11: within one emission the table of value names is append-only: no
\* assignment of lines 559-572 (input names, then output names) gives an id
\* a name other than the one an earlier assignment gave it, and no later
\* step of the emission changes or removes the name of an id.
NamesAppendOnly ==
  [][ /\ (pc = "emit" /\ pc' = "emit_nodes")
         => /\ \A i, j \in DOMAIN NameWrites :
                 (i < j /\ NameWrites[i].id = NameWrites[j].id)
                 => NameWrites[i].name = NameWrites[j].name
            /\ \A i \in DOMAIN NameWrites : NameWrites[i].id \in DOMAIN val_tab'
      /\ (pc = "emit_nodes" /\ pc' \in {"emit_nodes", "check_model"})
         => \A v \in DOMAIN val_tab : v \in DOMAIN val_tab' /\ val_tab'[v] = val_tab[v]
    ]_vars

\* C12: in every subgraph emitted for a branch of a conditional, every input
\* name of every node is a declared input of the subgraph or an output of an
\* earlier node of the same subgraph; no node of a branch reads a value of
\* the parent graph.
BranchesSelfContained ==
  onnx_model # Nothing
  => \A sg \in Subgraphs(onnx_model[1].node) :
       \A j \in DOMAIN sg.node :
         Range(sg.node[j].input) \subseteq (Range(sg.input) \cup ProducedBefore(sg.node, j))

\* C13: the display names <op>_<counter> of the nodes of the emitted model,
\* the nodes of nested branch subgraphs included, are pairwise different.
NodeNamesUnique ==
  onnx_model # Nothing
  => Cardinality(Range(NodeNames(onnx_model[1].node))) = Len(NodeNames(onnx_model[1].node))

\* C14: in optimize the structural lint runs after every rewrite pass before
\* the next pass begins, and no pass runs once a lint has failed.
LintAfterEveryPass ==
  /\ \A i \in 1..(Len(Ran(jit_log)) - 1) :
       Ran(jit_log)[i] # "_jit_pass_lint" => Ran(jit_log)[i + 1] = "_jit_pass_lint"
  /\ (pc = "finally" /\ err = "Exception" /\ jit_log # << >>)
     => Ran(jit_log)[Len(Ran(jit_log))] = "_jit_pass_lint"

\* C15: when input_names holds as many names as the graph has inputs other
\* than self, after optimize the j-th input other than self carries the
\* j-th name, and the name of the self input is unchanged.
InputsRenamed ==
  (pc = "generate_onnx" /\ opts.input_names # Nothing)
  => /\ \A j \in DOMAIN opts.input_names[1] :
          DebugName(g, NonSelf(GraphInputs(g), self_id)[j]) = opts.input_names[1][j]
     /\ self_id # 0 => DebugName(g, self_id) = DebugName(TracedGraph(model), self_id)

\* C16: after the constant folder has run, the inputs erased from the graph
\* are exactly those whose names are keys of the folded map, wherever they
\* are in the input list; every other input is still there with its uses,
\* and the inputs left keep their order.
FoldedInputsErased ==
  [][ ( /\ pc = "fold" /\ pc' # "fold" /\ err' # "Exception"
        /\ opts.do_constant_folding
        /\ opset_version \in constant_folding_opset_versions )
      => LET p == ConstantFoldPass(g, StateDictKeys(model))
             kept == {v \in Range(GraphInputs(p.g)) : DebugName(p.g, v) \notin Range(p.folded)}
         IN  /\ GraphInputs(g') = SeqFilter(GraphInputs(p.g), kept)
             /\ \A v \in kept : Uses(g', v) = Uses(p.g, v)
    ]_vars

\* C17: after lowering, with every conditional moved before the return node
\* of its block, and dead-code elimination, the graph is in dependency order
\* (the lint after the elimination does not fail), and in every emitted node
\* list each node comes after the producer of each of its inputs: a
\* conditional comes after its data dependencies and before its consumers.
NodesFollowProducers ==
  /\ err # "StructuralLintError"
  /\ pc \in {"fold", "emit", "emit_nodes"} => Lint(g)
  /\ onnx_model # Nothing
     => WellOrdered(onnx_model[1].node, {}, AllProduced(onnx_model[1].node))

\* C17 witness: an emitted conditional reads, in its then branch, the output
\* of a node emitted before it in the root graph
ConditionalAfterProducer ==
  /\ pc = "check_model"
  /\ \E i, j \in DOMAIN onnx_model[1].node :
       /\ i < j
       /\ onnx_model[1].node[j].op_type = "If"
       /\ \E n \in EmittedNodes(onnx_model[1].node[j].attribute[1].g.node) :
            Range(n.input) \cap Range(onnx_model[1].node[i].output) # {}

\* C18: for a node that has no handler, under every export mode, the
\* lowering function run is the one symbolic_function returns whenever it
\* returns one; an ATen node carrying the operator's name is made only when
\* symbolic_function returns none and the mode is not the standard one.
LookupDecides ==
  [][ ( /\ pc = "lower" /\ work # << >> /\ Head(work).op = "node"
        /\ g.nodes[Head(work).n].kind \notin Handlers
        /\ lowered' = lowered + 1 )
      => LET t == Head(work)
             f == symbolic_function(g.nodes[t.n].kind)
         IN  /\ f # None => g' = run_symbolic_function(g, t.b, t.n, f).g
             /\ (\E n \in Attached(g') \ Attached(g) : g'.nodes[n].kind = "onnx::ATen")
                => (f = None /\ opts.operator_export_type # "ONNX")
    ]_vars

\* C19: the emitted graph holds at most one initializer under each name, also
\* when the lowered graph reads the same attribute path through several
\* GetAttr values.
OneInitializerPerName ==
  onnx_model # Nothing =>
    LET init == onnx_model[1].initializer
    IN  \A v, w \in DOMAIN init : init[v] = init[w] => v = w

\* C20: when the emitter is about to read the names of boundary values from
\* val_tab (the inputs and outputs of a branch block once its nodes are
\* emitted, the non-self inputs and the outputs of the root graph once every
\* node is emitted and every input is used), each of these values has an
\* entry, also when no emitted node reads or writes it.
BoundaryValuesNamed ==
  (pc = "emit_nodes" /\ frames # << >> /\ Head(frames).todo = << >>) =>
    IF Len(frames) > 1
    THEN LET b == g.blocks[Head(frames).b]
         IN  (Range(b.inputs) \cup Range(b.outputs)) \subseteq DOMAIN val_tab
    ELSE LET ins == NonSelf(GraphInputs(g), self_id)
         IN  (\A i \in DOMAIN ins : Uses(g, ins[i]) # {})
             => (Range(ins) \cup Range(GraphOutputs(g))) \subseteq DOMAIN val_tab

\* The emitted nodes, the subgraphs of the conditionals among them and the
\* value descriptors of these subgraphs carry no documentation
RECURSIVE Undocumented(_)
Undocumented(nodes) ==
  \A i \in DOMAIN nodes :
    /\ nodes[i].doc_string = ""
    /\ \A j \in DOMAIN nodes[i].attribute :
         LET sg == nodes[i].attribute[j].g
         IN  /\ sg.doc_string = ""
             /\ \A k \in DOMAIN sg.input_doc_string : sg.input_doc_string[k] = ""
             /\ \A k \in DOMAIN sg.output_doc_string : sg.output_doc_string[k] = ""
             /\ Undocumented(sg.node)

NameLists(names, ks) == {Nothing} \cup {Some(FirstNames(names, k)) : k \in ks}

\* The flags of a fresh process: opset 9, no export type, no shape inference
FreshFlags == Flags({9}, {None}, {FALSE})

\* Exports of every program with one input and one result, under every
\* export type, with the default input_names or as many as the graph has
\* inputs
Init ==
  InitWith(Models(Programs, {1}, {1}),
           Options(ExportTypes, NameLists(UserInputNames, {1}), {Nothing}, BOOLEAN, {FALSE}),
           FreshFlags, {FALSE})

Spec == Init /\ [][Next]_vars

\* Exports of the programs of at most one node, with one or two inputs and
\* results, under name lists of every length up to MaxNames
ShortPrograms == {<<>>} \cup {<<it>> : it \in Items}

NamesInit ==
  InitWith(Models(ShortPrograms, {1, 2}, {1, 2}),
           Options({"ONNX"}, NameLists(UserInputNames, 0..MaxNames),
                   NameLists(UserOutputNames, 0..MaxNames), BOOLEAN, {FALSE}),
           FreshFlags, {FALSE})

NamesSpec == NamesInit /\ [][Next]_vars

\* A module that returns its parameter bias, and one that reads its parameter
\* weight twice
AttrResult == <<Item("prim::GetAttr", "bias", 0, <<>>)>>

AliasProgram ==
  <<Item("prim::GetAttr", "weight", 0, <<>>), Item("aten::relu", "", 0, <<>>),
    Item("prim::GetAttr", "weight", 0, <<>>), Item("aten::relu", "", 0, <<>>)>>

WidePrograms == ShortPrograms \cup {AttrResult, AliasProgram}

\* Exports of these programs and of the programs of at most one node, with
\* one or three inputs and up to three results, the inputs named
WideInit ==
  InitWith(Models(WidePrograms, {1, 3}, {1, 2, 3}),
           Options({"ONNX"}, NameLists(UserInputNames, {1, 3}), {Nothing}, BOOLEAN, BOOLEAN),
           FreshFlags, {FALSE})

WideSpec == WideInit /\ [][Next]_vars

====
